---- MODULE Spec2Model ----
(***************************************************************************)
(* Model of mcp-nano-banana's Generation Request/Response Adapter          *)
(* (generateImage, src/src/index.ts).  One invocation is a sequence of     *)
(* suspending steps: the call itself (credential read, request             *)
(* construction, primary fetch issued), the arrival of the primary         *)
(* response (fallback decision, possibly a second fetch issued), and the   *)
(* arrival of the retry response.  Absent (undefined) values are <<>> and  *)
(* present values are one-element sequences <<v>>.                         *)
(***************************************************************************)
EXTENDS Integers, Sequences, FiniteSets, TLC

VARIABLES
    env,          \* process.env.GEMINI_API_KEY: <<>> when unset, else <<string>>
    pc,           \* position of the generateImage invocation
    keySeen,      \* per invocation started so far: did it find a credential
    prompt,       \* argument prompt
    images,       \* argument images
    modelArg,     \* argument model as the caller passed it (<<>> when omitted)
    apiKey,       \* const apiKey of the running invocation
    parts,        \* const parts of the running invocation
    usedModel,    \* let usedModel
    didFallback,  \* let didFallback
    response,     \* let response: <<>> before the first fetch resolves
    requests,     \* fetch calls issued by the current invocation, in order
    received,     \* responses delivered to the current invocation, in order
    result,       \* <<r>> once generateImage has returned r
    error,        \* <<message>> once generateImage has thrown
    inv,          \* the tool-call handler's invocations, by invocation id
    fs,           \* the file system: path -> <<bytes>>, <<>> when there is no file
    mimePath,     \* getMimeType / loadImageFromPath called on its own: filePath
    mimeOut       \* ... and what the call gave: <<>> before it has run

\* the state of a generateImage call made on its own
gvars == <<pc, keySeen, prompt, images, modelArg, apiKey, parts, usedModel,
           didFallback, response, requests, received, result, error>>

\* the state of the tool-call handler and of the image loader
hvars == <<inv, fs, mimePath, mimeOut>>

vars == <<env, pc, keySeen, prompt, images, modelArg, apiKey, parts, usedModel,
          didFallback, response, requests, received, result, error,
          inv, fs, mimePath, mimeOut>>

----------------------------------------------------------------------------
(* Bounds *)

MaxImages == 2
MaxParts == 2
MaxCandidates == 2
MaxCalls == 2

----------------------------------------------------------------------------
(* Values *)

None == <<>>
Some(v) == <<v>>

SeqUpTo(S, n) == UNION {[1..k -> S] : k \in 0..n}

GEMINI_API_URL == "https://generativelanguage.googleapis.com/v1beta/models"

ProModel == "gemini-3-pro-image-preview"
FlashModel == "gemini-2.5-flash-image"

\* the model argument as the caller passes it: omitted, or one of the enum
ModelArgs == {None, Some(ProModel), Some(FlashModel)}

EnvValues == {None, Some(""), Some("test-api-key")}

Prompts == {"", "A beautiful sunset"}

\* InputImage records; mimeType may be missing at run time
InputImages ==
    { [data |-> "base64image1", mimeType |-> Some("image/jpeg")],
      [data |-> "base64image2", mimeType |-> None] }

\* JavaScript truthiness of an optional string
Truthy(s) == s /= None /\ s[1] /= ""

----------------------------------------------------------------------------
(* Remote responses *)

\* elements of GeminiResponse.candidates[].content.parts
ResponseParts ==
    { [text |-> None, inlineData |-> None],
      [text |-> Some(""), inlineData |-> None],
      [text |-> Some("Generated image description"), inlineData |-> None],
      [text |-> Some("Success with Flash"), inlineData |-> None],
      [text |-> None,
       inlineData |-> Some([mimeType |-> "image/png", data |-> "base64imagedata"])],
      [text |-> Some("Generated image description"),
       inlineData |-> Some([mimeType |-> "image/webp", data |-> "webpdata"])] }

Candidates ==
    { [content |-> None], [content |-> Some([parts |-> None])] }
    \cup { [content |-> Some([parts |-> Some(ps)])] :
             ps \in SeqUpTo(ResponseParts, MaxParts) }

\* candidates that stand at positions 2.. of a candidates array
LaterCandidates ==
    { [content |-> Some([parts |-> Some(<<[text |-> Some("Success with Flash"),
                                          inlineData |-> None]>>)])],
      [content |-> Some([parts |-> Some(<<[text |-> None,
                                          inlineData |-> Some([mimeType |-> "image/webp",
                                                               data |-> "webpdata"])]>>)])] }

\* first candidates of the arrays that have more than one candidate
FirstOfMany ==
    { [content |-> None],
      [content |-> Some([parts |-> Some(<<>>)])],
      [content |-> Some([parts |-> Some(<<[text |-> Some("Generated image description"),
                                          inlineData |-> None]>>)])] }

CandidateLists ==
    {<<>>}
    \cup { <<c>> : c \in Candidates }
    \cup { <<c>> \o tl : c \in FirstOfMany,
                         tl \in SeqUpTo(LaterCandidates, MaxCandidates - 1) \ {<<>>} }

\* parsed JSON bodies of the shape GeminiResponse
GeminiResponses ==
    { [candidates |-> None, error |-> None] }
    \cup { [candidates |-> Some(cs), error |-> None] : cs \in CandidateLists }
    \cup { [candidates |-> cs, error |-> Some([message |-> m])] :
             cs \in { None,
                      Some(<<[content |-> Some([parts |-> Some(<<[text |-> Some("Success with Flash"),
                                                                 inlineData |-> None]>>)])]>>) },
             m \in {"Invalid API key", "Quota exceeded"} }

EmptyJson == [candidates |-> None, error |-> None]

Ok(status) == status >= 200 /\ status <= 299

\* the non-success responses: status and raw body text
ErrorResponses ==
    { [status |-> 429, text |-> "Rate limit exceeded", json |-> EmptyJson],
      [status |-> 429, text |-> "Quota exhausted", json |-> EmptyJson],
      [status |-> 403, text |-> "Forbidden", json |-> EmptyJson],
      [status |-> 402, text |-> "Payment required", json |-> EmptyJson],
      [status |-> 400, text |-> "Bad request", json |-> EmptyJson],
      [status |-> 500, text |-> "Server error", json |-> EmptyJson] }

\* a fetch Response: its status, and its body as text() and as json() give it
Responses ==
    ErrorResponses
    \cup { [status |-> 200, text |-> "", json |-> d] : d \in GeminiResponses }

\* the bodies the test suite answers with: text, image, payload error, nothing
CoreGeminiResponses ==
    { [candidates |-> Some(<<[content |-> Some([parts |-> Some(<<p>>)])]>>),
       error |-> None] :
        p \in { [text |-> Some("Success with Flash"), inlineData |-> None],
                [text |-> None,
                 inlineData |-> Some([mimeType |-> "image/png",
                                      data |-> "base64imagedata"])] } }
    \cup { [candidates |-> None, error |-> Some([message |-> "Invalid API key"])],
           [candidates |-> Some(<<[content |-> Some([parts |-> Some(<<>>)])]>>),
            error |-> None] }

CoreResponses ==
    ErrorResponses
    \cup { [status |-> 200, text |-> "", json |-> d] : d \in CoreGeminiResponses }

----------------------------------------------------------------------------
(* generateImage *)

model == IF modelArg = None THEN ProModel ELSE modelArg[1]

\* number of generateImage invocations started so far
calls == Len(keySeen)

\* mutant: the credential found by an earlier invocation is kept
ReadApiKeyCached == IF Truthy(apiKey) THEN apiKey ELSE env

\* line 109: const apiKey = process.env.GEMINI_API_KEY
ReadApiKey == env

MissingKeyError == <<"GEMINI_API_KEY environment variable is not set">>

NoContentError == <<"No content generated">>

FetchFailedError == <<"fetch failed">>

\* mutant: every image is tagged image/png
RECURSIVE BuildImagePartsAllPng(_)
BuildImagePartsAllPng(imgs) ==
    IF imgs = <<>> THEN <<>>
    ELSE <<[inlineData |-> [mimeType |-> "image/png", data |-> Head(imgs).data]]>>
         \o BuildImagePartsAllPng(Tail(imgs))

RECURSIVE BuildImageParts(_)
BuildImageParts(imgs) ==
    IF imgs = <<>> THEN <<>>
    ELSE <<[inlineData |->
              [mimeType |-> IF Truthy(Head(imgs).mimeType)
                            THEN Head(imgs).mimeType[1] ELSE "image/png",
               data |-> Head(imgs).data]]>>
         \o BuildImageParts(Tail(imgs))

BuildParts(p, imgs) == <<[text |-> p]>> \o BuildImageParts(imgs)

makeRequest(key, ps, currentModel) ==
    [url |-> <<GEMINI_API_URL, "/", currentModel, ":generateContent">>,
     method |-> "POST",
     headers |-> [ContentType |-> "application/json", xGoogApiKey |-> key],
     body |-> [contents |-> <<[parts |-> ps]>>,
               generationConfig |-> [responseModalities |-> <<"TEXT", "IMAGE">>]]]

\* mutant: payment-required is not retried
RetryStatusesNo402 == {429, 403}

RetryStatuses == {429, 403, 402}

\* mutant: the fallback is taken whatever model the caller asked for
ShouldFallbackAnyModel(resp, m) ==
    /\ ~Ok(resp.status)
    /\ resp.status \in RetryStatuses

ShouldFallback(resp, m) ==
    /\ ~Ok(resp.status)
    /\ m = ProModel
    /\ resp.status \in RetryStatuses

HttpError(resp) == <<"Gemini API error: ", ToString(resp.status), " - ", resp.text>>

PayloadError(data) == <<"Gemini API error: ", data.error[1].message>>

\* mutant: the first candidate that has content is taken
RECURSIVE FirstPartsAnyCandidate(_)
FirstPartsAnyCandidate(data) ==
    IF data.candidates = None THEN None
    ELSE IF Len(data.candidates[1]) = 0 THEN None
    ELSE IF data.candidates[1][1].content = None
    THEN FirstPartsAnyCandidate([data EXCEPT !.candidates = Some(Tail(data.candidates[1]))])
    ELSE data.candidates[1][1].content[1].parts

\* data.candidates?.[0]?.content?.parts
FirstParts(data) ==
    IF data.candidates = None THEN None
    ELSE IF Len(data.candidates[1]) = 0 THEN None
    ELSE IF data.candidates[1][1].content = None THEN None
    ELSE data.candidates[1][1].content[1].parts

NoContent(responseParts) ==
    responseParts = None \/ Len(responseParts[1]) = 0

\* mutant: a field once set is not overwritten by a later part
ScanPartFirstWins(res, part) ==
    LET r1 == IF Truthy(part.text) /\ res.text = None
              THEN [res EXCEPT !.text = part.text] ELSE res
    IN IF part.inlineData /= None /\ res.imageData = None
       THEN [r1 EXCEPT !.imageData = Some(part.inlineData[1].data),
                       !.mimeType = Some(part.inlineData[1].mimeType)]
       ELSE r1

ScanPart(res, part) ==
    LET r1 == IF Truthy(part.text) THEN [res EXCEPT !.text = part.text] ELSE res
    IN IF part.inlineData /= None
       THEN [r1 EXCEPT !.imageData = Some(part.inlineData[1].data),
                       !.mimeType = Some(part.inlineData[1].mimeType)]
       ELSE r1

RECURSIVE ScanParts(_, _)
ScanParts(res, ps) ==
    IF ps = <<>> THEN res ELSE ScanParts(ScanPart(res, Head(ps)), Tail(ps))

\* mutant: the result reports the requested model instead of the one used
NewResultRequestedModel(um, df) ==
    [text |-> None, imageData |-> None, mimeType |-> None,
     modelUsed |-> model, fallback |-> df]

NewResult(um, df) ==
    [text |-> None, imageData |-> None, mimeType |-> None,
     modelUsed |-> um, fallback |-> df]

\* mutant: the candidates are looked at before the error object
OutcomeContentFirst(resp, um, df) ==
    IF ~Ok(resp.status)
    THEN [result |-> None, error |-> Some(HttpError(resp))]
    ELSE IF ~NoContent(FirstParts(resp.json))
    THEN [result |-> Some(ScanParts(NewResult(um, df), FirstParts(resp.json)[1])),
          error |-> None]
    ELSE IF resp.json.error /= None
    THEN [result |-> None, error |-> Some(PayloadError(resp.json))]
    ELSE [result |-> None, error |-> Some(NoContentError)]

\* lines 161-192: what the invocation ends with, given the final response
Outcome(resp, um, df) ==
    IF ~Ok(resp.status)
    THEN [result |-> None, error |-> Some(HttpError(resp))]
    ELSE IF resp.json.error /= None
    THEN [result |-> None, error |-> Some(PayloadError(resp.json))]
    ELSE IF NoContent(FirstParts(resp.json))
    THEN [result |-> None, error |-> Some(NoContentError)]
    ELSE [result |-> Some(ScanParts(NewResult(um, df), FirstParts(resp.json)[1])),
          error |-> None]

Settle(out) ==
    /\ result' = out.result
    /\ error' = out.error
    /\ pc' = IF out.error = None THEN "returned" ELSE "thrown"

----------------------------------------------------------------------------
(* Paths, getMimeType and loadImageFromPath.  A path is a sequence of      *)
(* tokens: "/" and "." are those characters, every other token is a run of *)
(* characters that are neither.                                            *)

MaxPathLen == 4

PathTokens == {"/", ".", "image", "png", "PNG", "Jpg", "jpeg", "WEBP", "gif"}

\* String.prototype.toLowerCase on a token
toLowerCase(tok) ==
    CASE tok = "PNG" -> "png"
      [] tok = "Jpg" -> "jpg"
      [] tok = "WEBP" -> "webp"
      [] OTHER -> tok

RECURSIVE MapLower(_)
MapLower(toks) ==
    IF toks = <<>> THEN <<>> ELSE <<toLowerCase(Head(toks))>> \o MapLower(Tail(toks))

\* path.extname (posix): the scan from the end of the path; i is the
\* 0-based index of the character looked at, st the loop's variables
RECURSIVE ExtScan(_, _, _)
ExtScan(path, i, st) ==
    IF i < 0 THEN st
    ELSE LET code == path[i + 1] IN
      IF code = "/"
      THEN IF ~st.matchedSlash
           THEN [st EXCEPT !.startPart = i + 1]
           ELSE ExtScan(path, i - 1, st)
      ELSE LET s1 == IF st.end = -1
                     THEN [st EXCEPT !.matchedSlash = FALSE, !.end = i + 1]
                     ELSE st
               s2 == IF code = "."
                     THEN IF s1.startDot = -1 THEN [s1 EXCEPT !.startDot = i]
                          ELSE IF s1.preDotState /= 1 THEN [s1 EXCEPT !.preDotState = 1]
                          ELSE s1
                     ELSE IF s1.startDot /= -1 THEN [s1 EXCEPT !.preDotState = -1]
                     ELSE s1
           IN ExtScan(path, i - 1, s2)

extname(path) ==
    LET st == ExtScan(path, Len(path) - 1,
                      [startDot |-> -1, startPart |-> 0, end |-> -1,
                       matchedSlash |-> TRUE, preDotState |-> 0])
    IN IF \/ st.startDot = -1
          \/ st.end = -1
          \/ st.preDotState = 0
          \/ (st.preDotState = 1 /\ st.startDot = st.end - 1
                                 /\ st.startDot = st.startPart + 1)
       THEN <<>>
       ELSE SubSeq(path, st.startDot + 1, st.end)

\* const mimeTypes: the keys as token sequences
mimeTypes ==
    [ext \in {<<".", "png">>, <<".", "jpg">>, <<".", "jpeg">>, <<".", "webp">>,
              <<".", "gif">>} |->
       CASE ext = <<".", "png">> -> "image/png"
         [] ext = <<".", "jpg">> -> "image/jpeg"
         [] ext = <<".", "jpeg">> -> "image/jpeg"
         [] ext = <<".", "webp">> -> "image/webp"
         [] ext = <<".", "gif">> -> "image/gif"]

\* mutant: the extension is looked up as written, without lower-casing
getMimeTypeCaseSensitive(filePath) ==
    LET ext == extname(filePath)
    IN IF ext \in DOMAIN mimeTypes THEN mimeTypes[ext] ELSE "image/png"

getMimeType(filePath) ==
    LET ext == MapLower(extname(filePath))
    IN IF ext \in DOMAIN mimeTypes THEN mimeTypes[ext] ELSE "image/png"

\* the base64 alphabet: character i stands for the value i - 1
Base64Chars ==
    <<"A","B","C","D","E","F","G","H","I","J","K","L","M","N","O","P",
      "Q","R","S","T","U","V","W","X","Y","Z","a","b","c","d","e","f",
      "g","h","i","j","k","l","m","n","o","p","q","r","s","t","u","v",
      "w","x","y","z","0","1","2","3","4","5","6","7","8","9","+","/">>

Base64Value(c) == (CHOOSE k \in DOMAIN Base64Chars : Base64Chars[k] = c) - 1

\* Buffer.prototype.toString('base64'): bytes to base64 characters
RECURSIVE toBase64(_)
toBase64(bytes) ==
    IF bytes = <<>> THEN <<>>
    ELSE IF Len(bytes) = 1
    THEN <<Base64Chars[(bytes[1] \div 4) + 1],
           Base64Chars[((bytes[1] % 4) * 16) + 1], "=", "=">>
    ELSE IF Len(bytes) = 2
    THEN <<Base64Chars[(bytes[1] \div 4) + 1],
           Base64Chars[((bytes[1] % 4) * 16 + bytes[2] \div 16) + 1],
           Base64Chars[((bytes[2] % 16) * 4) + 1], "=">>
    ELSE <<Base64Chars[(bytes[1] \div 4) + 1],
           Base64Chars[((bytes[1] % 4) * 16 + bytes[2] \div 16) + 1],
           Base64Chars[((bytes[2] % 16) * 4 + bytes[3] \div 64) + 1],
           Base64Chars[(bytes[3] % 64) + 1]>>
         \o toBase64(SubSeq(bytes, 4, Len(bytes)))

\* the characters before the first "="
RECURSIVE BeforePadding(_)
BeforePadding(chars) ==
    IF chars = <<>> \/ Head(chars) = "=" THEN <<>>
    ELSE <<Head(chars)>> \o BeforePadding(Tail(chars))

RECURSIVE DecodeGroups(_)
DecodeGroups(v) ==
    IF Len(v) < 2 THEN <<>>
    ELSE IF Len(v) = 2
    THEN <<v[1] * 4 + v[2] \div 16>>
    ELSE IF Len(v) = 3
    THEN <<v[1] * 4 + v[2] \div 16, (v[2] % 16) * 16 + v[3] \div 4>>
    ELSE <<v[1] * 4 + v[2] \div 16, (v[2] % 16) * 16 + v[3] \div 4,
           (v[3] % 4) * 64 + v[4]>>
         \o DecodeGroups(SubSeq(v, 5, Len(v)))

\* Buffer.from(data, 'base64'): base64 characters to bytes
fromBase64(chars) ==
    LET cs == BeforePadding(chars)
    IN DecodeGroups([k \in DOMAIN cs |-> Base64Value(cs[k])])

\* lines 49-54, on a file that was read: base64 of the bytes, mime type of the path
loadImageFromPath(filePath, buffer) ==
    [data |-> toBase64(buffer), mimeType |-> Some(getMimeType(filePath))]

----------------------------------------------------------------------------
(* The tool-call handler's world: invocations, files, arguments            *)

\* identities of the handler invocations the transport may have in flight
Procs == {"A", "B"}

RefJpg == <<"image", ".", "Jpg">>
RefGif == <<"image", ".", "gif">>
OutPng == <<"image", ".", "png">>
OutWebp == <<"image", ".", "WEBP">>
\* a path in a directory that does not exist
NoDirPng == <<"png", "/", "image", ".", "png">>

FilePaths == {RefJpg, RefGif, OutPng, OutWebp, NoDirPng}

\* the files on disk when the server starts: two reference images
InitFs ==
    [p \in FilePaths |->
       IF p = RefJpg THEN Some(<<255, 216, 255>>)
       ELSE IF p = RefGif THEN Some(<<71, 73>>)
       ELSE None]

\* an invocation the transport has not dispatched yet
IdleInvocation ==
    [hpc |-> "idle", name |-> "", args |-> None, fs0 |-> InitFs,
     images |-> <<>>, reads |-> <<>>,
     apiKey |-> None, parts |-> <<>>, usedModel |-> "", didFallback |-> FALSE,
     requests |-> <<>>, received |-> <<>>, result |-> None,
     content |-> <<>>, writes |-> <<>>, response |-> None]

TypeOK ==
    /\ env \in EnvValues
    /\ pc \in {"idle", "awaitPrimary", "awaitRetry", "returned", "thrown"}
    /\ keySeen \in SeqUpTo(BOOLEAN, MaxCalls)
    /\ prompt \in Prompts
    /\ images \in SeqUpTo(InputImages, MaxImages)
    /\ modelArg \in ModelArgs
    /\ didFallback \in BOOLEAN
    /\ Len(requests) <= 2
    /\ Len(received) <= 2

InitGenerate ==
    /\ pc = "idle"
    /\ keySeen = <<>>
    /\ prompt = ""
    /\ images = <<>>
    /\ modelArg = None
    /\ apiKey = None
    /\ parts = <<>>
    /\ usedModel = ""
    /\ didFallback = FALSE
    /\ response = None
    /\ requests = <<>>
    /\ received = <<>>
    /\ result = None
    /\ error = None

InitHandler ==
    /\ inv = [i \in Procs |-> IdleInvocation]
    /\ fs = InitFs

InitLoader ==
    /\ mimePath = <<>>
    /\ mimeOut = None

Init ==
    /\ env \in EnvValues
    /\ InitGenerate
    /\ InitHandler
    /\ InitLoader

\* process.env.GEMINI_API_KEY is set, changed or deleted by the embedding process
SetEnv(v) ==
    /\ v /= env
    /\ env' = v
    /\ UNCHANGED <<pc, keySeen, prompt, images, modelArg, apiKey, parts, usedModel,
                   didFallback, response, requests, received, result, error>>
    /\ UNCHANGED hvars

\* lines 102-147: the call up to the first await
GenerateImage(p, imgs, m) ==
    /\ pc \in {"idle", "returned", "thrown"}
    /\ calls < MaxCalls
    /\ keySeen' = Append(keySeen, Truthy(ReadApiKey))
    /\ prompt' = p
    /\ images' = imgs
    /\ modelArg' = m
    /\ apiKey' = ReadApiKey
    /\ usedModel' = ""
    /\ didFallback' = FALSE
    /\ response' = None
    /\ received' = <<>>
    /\ result' = None
    /\ IF ~Truthy(apiKey')
       THEN /\ error' = Some(MissingKeyError)
            /\ pc' = "thrown"
            /\ parts' = <<>>
            /\ requests' = <<>>
       ELSE /\ error' = None
            /\ pc' = "awaitPrimary"
            /\ parts' = BuildParts(p, imgs)
            /\ requests' = <<makeRequest(apiKey'[1], parts', model')>>
    /\ UNCHANGED env
    /\ UNCHANGED hvars

\* lines 147-192: the primary fetch resolves
PrimaryResponse(r) ==
    /\ pc = "awaitPrimary"
    /\ received' = Append(received, r)
    /\ IF ShouldFallback(r, model)
       THEN /\ usedModel' = FlashModel
            /\ didFallback' = TRUE
            /\ response' = Some(r)
            /\ requests' = Append(requests, makeRequest(apiKey[1], parts, usedModel'))
            /\ pc' = "awaitRetry"
            /\ UNCHANGED <<result, error>>
       ELSE /\ usedModel' = model
            /\ didFallback' = FALSE
            /\ response' = Some(r)
            /\ Settle(Outcome(r, usedModel', didFallback'))
            /\ UNCHANGED requests
    /\ UNCHANGED <<env, keySeen, prompt, images, modelArg, apiKey, parts>>
    /\ UNCHANGED hvars

\* mutant: the retry's outcome is computed from the primary response
RetryResponseStale(r) ==
    /\ pc = "awaitRetry"
    /\ received' = Append(received, r)
    /\ response' = Some(r)
    /\ Settle(Outcome(response[1], usedModel, didFallback))
    /\ UNCHANGED <<env, keySeen, prompt, images, modelArg, apiKey, parts, usedModel,
                   didFallback, requests>>
    /\ UNCHANGED hvars

\* lines 157-192: the retry fetch resolves
RetryResponse(r) ==
    /\ pc = "awaitRetry"
    /\ received' = Append(received, r)
    /\ response' = Some(r)
    /\ Settle(Outcome(r, usedModel, didFallback))
    /\ UNCHANGED <<env, keySeen, prompt, images, modelArg, apiKey, parts, usedModel,
                   didFallback, requests>>
    /\ UNCHANGED hvars

\* lines 147, 157: the pending fetch rejects (network failure)
FetchRejects ==
    /\ pc \in {"awaitPrimary", "awaitRetry"}
    /\ error' = Some(FetchFailedError)
    /\ pc' = "thrown"
    /\ UNCHANGED <<env, keySeen, prompt, images, modelArg, apiKey, parts, usedModel,
                   didFallback, response, requests, received, result>>
    /\ UNCHANGED hvars

\* every argument list, answered by the core responses
Next ==
    \/ \E v \in EnvValues : SetEnv(v)
    \/ \E p \in Prompts, imgs \in SeqUpTo(InputImages, MaxImages), m \in ModelArgs :
         GenerateImage(p, imgs, m)
    \/ \E r \in CoreResponses : PrimaryResponse(r)
    \/ \E r \in CoreResponses : RetryResponse(r)
    \/ FetchRejects

Spec == Init /\ [][Next]_vars

\* text-only invocations, answered by every response body
NextBodies ==
    \/ \E m \in ModelArgs : GenerateImage("A beautiful sunset", <<>>, m)
    \/ \E r \in Responses : PrimaryResponse(r)
    \/ \E r \in Responses : RetryResponse(r)
    \/ FetchRejects

SpecBodies == Init /\ [][NextBodies]_vars

----------------------------------------------------------------------------
(* The CallToolRequestSchema handler, lines 212-282, one record per         *)
(* invocation; generateImage runs inside it on the invocation's own state.  *)

\* truthiness of an optional sequence (base64 characters, a path)
TruthySeq(s) == s /= None /\ s[1] /= <<>>

\* what the remote answers to the handler's requests; image data is base64
ToolGeminiResponses ==
    { [candidates |-> Some(<<[content |-> Some([parts |-> Some(ps)])]>>),
       error |-> None] :
        ps \in { <<[text |-> Some("Generated image description"), inlineData |-> None],
                  [text |-> None,
                   inlineData |-> Some([mimeType |-> "image/png",
                                        data |-> <<"i", "V", "A", "=">>])]>>,
                <<[text |-> None,
                   inlineData |-> Some([mimeType |-> "image/webp",
                                        data |-> <<"/", "9", "j", "/">>])]>>,
                <<[text |-> None,
                   inlineData |-> Some([mimeType |-> "",
                                        data |-> <<"i", "V", "A", "=">>])]>>,
                <<[text |-> Some("Success with Flash"), inlineData |-> None]>>,
                <<[text |-> None, inlineData |-> None]>>,
                <<>> } }
    \cup { [candidates |-> None, error |-> Some([message |-> "Invalid API key"])] }

ToolResponses ==
    { [status |-> 429, text |-> "Rate limit exceeded", json |-> EmptyJson],
      [status |-> 500, text |-> "Server error", json |-> EmptyJson] }
    \cup { [status |-> 200, text |-> "", json |-> d] : d \in ToolGeminiResponses }

ToolNames == {"generate_image", "list_models"}

\* the arguments of a generate_image call
ToolArgs(paths, models, ratios, formats, outs) ==
    [prompt : {"A beautiful sunset"}, imagePaths : paths, model : models,
     aspectRatio : ratios, outputFormat : formats, outputPath : outs]

ErrorResponse(errorMessage) ==
    [content |-> <<[type |-> "text", text |-> <<"Error: ">> \o errorMessage]>>,
     isError |-> TRUE]

ContentResponse(content) == [content |-> content, isError |-> FALSE]

UnknownToolError(name) == <<"Unknown tool: ", name>>

\* destructuring of undefined arguments, line 217
NoArgsError == <<"Cannot destructure property 'prompt' of 'args' as it is undefined.">>

ReadError(path) == <<"ENOENT: no such file or directory, open ">> \o path

WriteError(path) == <<"ENOENT: no such file or directory, open ">> \o path

\* the directory of the path exists
Writable(path) == path /= NoDirPng

\* the parameter model of generateImage, default applied
ModelParam(args) == IF args.model = None THEN ProModel ELSE args.model[1]

\* mutant: the aspect ratio and the format are sent along when given
generateImageRequestWithConfig(args, key, ps, currentModel) ==
    LET req == makeRequest(key, ps, currentModel)
    IN [req EXCEPT !.body.generationConfig =
          [responseModalities |-> <<"TEXT", "IMAGE">>,
           aspectRatio |-> args.aspectRatio, outputFormat |-> args.outputFormat]]

\* lines 102-145: the request generateImage sends for its arguments
generateImageRequest(args, key, ps, currentModel) ==
    makeRequest(key, ps, currentModel)

\* the invocation ends with the response
Respond(r, resp) == [r EXCEPT !.hpc = "done", !.response = Some(resp)]

\* lines 235-241 and 102-147: generateImage is called, up to its first await
StartGenerate(r, key) ==
    IF ~Truthy(key)
    THEN Respond([r EXCEPT !.apiKey = key], ErrorResponse(MissingKeyError))
    ELSE LET ps == BuildParts(r.args[1].prompt, r.images)
         IN [r EXCEPT !.apiKey = key,
                      !.parts = ps,
                      !.requests = <<generateImageRequest(r.args[1], key[1], ps,
                                                          ModelParam(r.args[1]))>>,
                      !.hpc = "fetchPrimary"]

\* mutant: the result text is left out of the status block
StatusTextModelOnly(res) ==
    <<"Model used: ", res.modelUsed>>
    \o (IF res.fallback
        THEN <<" (fallback from gemini-3-pro-image-preview due to quota/rate limit)">>
        ELSE <<>>)

\* lines 246-253
StatusText(res) ==
    <<"Model used: ", res.modelUsed>>
    \o (IF res.fallback
        THEN <<" (fallback from gemini-3-pro-image-preview due to quota/rate limit)">>
        ELSE <<>>)
    \o (IF Truthy(res.text) THEN <<"\n\n", res.text[1]>> ELSE <<>>)

\* line 257: result.imageData && result.mimeType
HasImage(res) == TruthySeq(res.imageData) /\ Truthy(res.mimeType)

\* mutant: without an output path the image is also saved, to a default path
AfterGenerateDefaultPath(r, out) ==
    IF out.error /= None
    THEN Respond(r, ErrorResponse(out.error[1]))
    ELSE LET res == out.result[1]
             status == <<[type |-> "text", text |-> StatusText(res)]>>
         IN IF HasImage(res)
            THEN IF TruthySeq(r.args[1].outputPath)
                 THEN [r EXCEPT !.result = out.result,
                                !.content = status,
                                !.writes = Append(r.writes,
                                             [path |-> r.args[1].outputPath[1],
                                              data |-> fromBase64(res.imageData[1])]),
                                !.hpc = "writeOpen"]
                 ELSE LET image == [type |-> "image", data |-> res.imageData[1],
                                    mimeType |-> res.mimeType[1]]
                      IN [r EXCEPT !.result = out.result,
                                   !.content = status \o <<image>>,
                                   !.writes = Append(r.writes,
                                                [path |-> OutPng,
                                                 data |-> fromBase64(res.imageData[1])]),
                                   !.hpc = "writeOpen"]
            ELSE Respond([r EXCEPT !.result = out.result, !.content = status],
                         ContentResponse(status))

\* lines 235-271: generateImage has settled with out; up to the next await
AfterGenerate(r, out) ==
    IF out.error /= None
    THEN Respond(r, ErrorResponse(out.error[1]))
    ELSE LET res == out.result[1]
             status == <<[type |-> "text", text |-> StatusText(res)]>>
         IN IF HasImage(res)
            THEN IF TruthySeq(r.args[1].outputPath)
                 THEN [r EXCEPT !.result = out.result,
                                !.content = status,
                                !.writes = Append(r.writes,
                                             [path |-> r.args[1].outputPath[1],
                                              data |-> fromBase64(res.imageData[1])]),
                                !.hpc = "writeOpen"]
                 ELSE LET image == [type |-> "image", data |-> res.imageData[1],
                                    mimeType |-> res.mimeType[1]]
                      IN Respond([r EXCEPT !.result = out.result,
                                           !.content = status \o <<image>>],
                                 ContentResponse(status \o <<image>>))
            ELSE Respond([r EXCEPT !.result = out.result, !.content = status],
                         ContentResponse(status))

\* mutant: the tool name is not looked at, every call generates an image
CallToolAnyName(i, name, args) ==
    /\ inv[i].hpc = "idle"
    /\ LET r == [inv[i] EXCEPT !.name = name, !.args = args, !.fs0 = fs]
       IN inv' = [inv EXCEPT ![i] =
            IF args = None
            THEN Respond(r, ErrorResponse(NoArgsError))
            ELSE IF TruthySeq(args[1].imagePaths)
            THEN [r EXCEPT !.hpc = "reading"]
            ELSE StartGenerate(r, ReadApiKey)]
    /\ UNCHANGED <<env, gvars, fs, mimePath, mimeOut>>

\* lines 212-233: the transport dispatches a tool call
CallTool(i, name, args) ==
    /\ inv[i].hpc = "idle"
    /\ LET r == [inv[i] EXCEPT !.name = name, !.args = args, !.fs0 = fs]
       IN inv' = [inv EXCEPT ![i] =
            IF name /= "generate_image"
            THEN Respond(r, ErrorResponse(UnknownToolError(name)))
            ELSE IF args = None
            THEN Respond(r, ErrorResponse(NoArgsError))
            ELSE IF TruthySeq(args[1].imagePaths)
            THEN [r EXCEPT !.hpc = "reading"]
            ELSE StartGenerate(r, ReadApiKey)]
    /\ UNCHANGED <<env, gvars, fs, mimePath, mimeOut>>

\* the path the loop at lines 229-232 is reading
CurrentPath(r) == r.args[1].imagePaths[1][Len(r.reads) + 1]

\* lines 229-241: readFile resolves; after the last image generateImage is called
ReadOk(i) ==
    /\ inv[i].hpc = "reading"
    /\ fs[CurrentPath(inv[i])] /= None
    /\ \E path \in {CurrentPath(inv[i])} :
       \E image \in {loadImageFromPath(path, fs[path][1])} :
       \E r \in {[inv[i] EXCEPT !.images = Append(inv[i].images, image),
                                !.reads = Append(inv[i].reads, path)]} :
          inv' = [inv EXCEPT ![i] =
            IF Len(r.reads) = Len(r.args[1].imagePaths[1])
            THEN StartGenerate(r, ReadApiKey)
            ELSE r]
    /\ UNCHANGED <<env, gvars, fs, mimePath, mimeOut>>

\* mutant: an unreadable image is skipped and the loop goes on
ReadFailsSkips(i) ==
    /\ inv[i].hpc = "reading"
    /\ fs[CurrentPath(inv[i])] = None
    /\ LET r == [inv[i] EXCEPT !.reads = Append(inv[i].reads, CurrentPath(inv[i]))]
       IN inv' = [inv EXCEPT ![i] =
            IF Len(r.reads) = Len(r.args[1].imagePaths[1])
            THEN StartGenerate(r, ReadApiKey)
            ELSE r]
    /\ UNCHANGED <<env, gvars, fs, mimePath, mimeOut>>

\* mutant: a missing file is waited for until some invocation has written it
ReadFailsWaits(i) ==
    /\ inv[i].hpc = "reading"
    /\ fs[CurrentPath(inv[i])] = None
    /\ UNCHANGED vars

\* lines 230, 275-281: readFile rejects, there is no such file
ReadFails(i) ==
    /\ inv[i].hpc = "reading"
    /\ fs[CurrentPath(inv[i])] = None
    /\ LET path == CurrentPath(inv[i])
       IN inv' = [inv EXCEPT ![i] =
            Respond([inv[i] EXCEPT !.reads = Append(inv[i].reads, path)],
                    ErrorResponse(ReadError(path)))]
    /\ UNCHANGED <<env, gvars, fs, mimePath, mimeOut>>

\* the one value of a singleton set: its element is computed once
TheOne(S) == CHOOSE x \in S : TRUE

\* lines 147-192 and 243-271: the invocation r0 gets the primary response
AfterPrimary(r0, resp) ==
    LET r == [r0 EXCEPT !.received = Append(r0.received, resp)]
        m == ModelParam(r.args[1])
    IN IF ShouldFallback(resp, m)
       THEN [r EXCEPT !.usedModel = FlashModel,
                      !.didFallback = TRUE,
                      !.requests = Append(r.requests,
                                     generateImageRequest(r.args[1], r.apiKey[1],
                                                          r.parts, FlashModel)),
                      !.hpc = "fetchRetry"]
       ELSE TheOne({ AfterGenerate([r EXCEPT !.usedModel = m], out) :
                       out \in {Outcome(resp, m, FALSE)} })

\* lines 157-192 and 243-271: the invocation r0 gets the retry's response
AfterRetry(r0, resp) ==
    LET r == [r0 EXCEPT !.received = Append(r0.received, resp)]
    IN TheOne({ AfterGenerate(r, out) :
                  out \in {Outcome(resp, r.usedModel, r.didFallback)} })

\* lines 147-159 and on: the primary fetch of the invocation resolves
ToolPrimaryResponse(i, resp) ==
    /\ inv[i].hpc = "fetchPrimary"
    /\ inv' = [inv EXCEPT ![i] = AfterPrimary(inv[i], resp)]
    /\ UNCHANGED <<env, gvars, fs, mimePath, mimeOut>>

\* lines 157-192 and on: the retry fetch of the invocation resolves
ToolRetryResponse(i, resp) ==
    /\ inv[i].hpc = "fetchRetry"
    /\ inv' = [inv EXCEPT ![i] = AfterRetry(inv[i], resp)]
    /\ UNCHANGED <<env, gvars, fs, mimePath, mimeOut>>

\* lines 147, 157, 275-281: the pending fetch rejects
ToolFetchRejects(i) ==
    /\ inv[i].hpc \in {"fetchPrimary", "fetchRetry"}
    /\ inv' = [inv EXCEPT ![i] = Respond(inv[i], ErrorResponse(FetchFailedError))]
    /\ UNCHANGED <<env, gvars, fs, mimePath, mimeOut>>

\* the path of the writeFile call in progress
WritePath(r) == r.writes[Len(r.writes)].path

\* bytes written at offset 0 over what the file holds
Overlay(bytes, old) ==
    bytes \o (IF Len(old) > Len(bytes) THEN SubSeq(old, Len(bytes) + 1, Len(old)) ELSE <<>>)

\* line 260, writeFile opens the file: created or truncated
WriteOpen(i) ==
    /\ inv[i].hpc = "writeOpen"
    /\ Writable(WritePath(inv[i]))
    /\ fs' = [fs EXCEPT ![WritePath(inv[i])] = Some(<<>>)]
    /\ inv' = [inv EXCEPT ![i].hpc = "writeData"]
    /\ UNCHANGED <<env, gvars, mimePath, mimeOut>>

\* mutant: the error is appended to the content built so far
WriteFailsKeepsContent(i) ==
    /\ inv[i].hpc = "writeOpen"
    /\ ~Writable(WritePath(inv[i]))
    /\ inv' = [inv EXCEPT ![i] =
         Respond(inv[i],
                 [content |-> inv[i].content
                                \o ErrorResponse(WriteError(WritePath(inv[i]))).content,
                  isError |-> TRUE])]
    /\ UNCHANGED <<env, gvars, fs, mimePath, mimeOut>>

\* line 260, writeFile cannot open the file; lines 275-281
WriteFails(i) ==
    /\ inv[i].hpc = "writeOpen"
    /\ ~Writable(WritePath(inv[i]))
    /\ inv' = [inv EXCEPT ![i] =
         Respond(inv[i], ErrorResponse(WriteError(WritePath(inv[i]))))]
    /\ UNCHANGED <<env, gvars, fs, mimePath, mimeOut>>

\* line 260, writeFile writes the buffer from the start of the file
WriteData(i) ==
    /\ inv[i].hpc = "writeData"
    /\ LET w == inv[i].writes[Len(inv[i].writes)]
       IN fs' = [fs EXCEPT ![w.path] =
                   Some(Overlay(w.data, IF fs[w.path] = None THEN <<>> ELSE fs[w.path][1]))]
    /\ inv' = [inv EXCEPT ![i].hpc = "writeClose"]
    /\ UNCHANGED <<env, gvars, mimePath, mimeOut>>

\* lines 260-271: writeFile resolves, the confirmation is appended
WriteClose(i) ==
    /\ inv[i].hpc = "writeClose"
    /\ LET content == Append(inv[i].content,
                        [type |-> "text",
                         text |-> <<"Image saved to: ">> \o WritePath(inv[i])])
       IN inv' = [inv EXCEPT ![i] =
            Respond([inv[i] EXCEPT !.content = content], ContentResponse(content))]
    /\ UNCHANGED <<env, gvars, fs, mimePath, mimeOut>>

\* the environment changes while the handler runs
ToolSetEnv(v) ==
    /\ v /= env
    /\ env' = v
    /\ UNCHANGED <<gvars, hvars>>

\* one invocation at a time, every argument list
NextTool ==
    \/ \E v \in EnvValues : ToolSetEnv(v)
    \/ \E name \in ToolNames,
          args \in {None} \cup
             { Some(a) : a \in ToolArgs(
                 {None} \cup {Some(ps) : ps \in SeqUpTo({RefJpg, RefGif, OutPng}, MaxImages)},
                 ModelArgs, {None}, {None},
                 {None, Some(OutPng), Some(NoDirPng)}) } :
         CallTool("A", name, args)
    \/ ReadOk("A")
    \/ ReadFails("A")
    \/ \E resp \in ToolResponses : ToolPrimaryResponse("A", resp)
    \/ \E resp \in ToolResponses : ToolRetryResponse("A", resp)
    \/ ToolFetchRejects("A")
    \/ WriteOpen("A")
    \/ WriteFails("A")
    \/ WriteData("A")
    \/ WriteClose("A")

SpecTool == Init /\ [][NextTool]_vars

\* the number of reference images the tool's schema announces, line 72
MaxReferenceImages == 14

\* n paths of readable reference images
ManyPaths(n) == [k \in 1..n |-> IF k % 2 = 1 THEN RefJpg ELSE RefGif]

ManyResponses ==
    { resp \in ToolResponses :
        resp.status /= 200 \/ resp.json.error /= None \/ resp.json.candidates[1][1].content[1].parts[1] = <<>> }

\* one invocation with path lists of every length up to one past the announced limit
NextMany ==
    \/ \E n \in 0..(MaxReferenceImages + 1), m \in ModelArgs :
         CallTool("A", "generate_image",
                  Some([prompt |-> "A beautiful sunset",
                        imagePaths |-> Some(ManyPaths(n)), model |-> m,
                        aspectRatio |-> None, outputFormat |-> None,
                        outputPath |-> None]))
    \/ ReadOk("A")
    \/ \E resp \in ManyResponses : ToolPrimaryResponse("A", resp)
    \/ \E resp \in ManyResponses : ToolRetryResponse("A", resp)
    \/ ToolFetchRejects("A")

InitMany == env = Some("test-api-key") /\ InitGenerate /\ InitHandler /\ InitLoader

SpecMany == InitMany /\ [][NextMany]_vars

\* what the remote answers in the runs of two invocations
PairResponses ==
    { resp \in ToolResponses :
        \/ resp.status = 429
        \/ /\ resp.status = 200
           /\ resp.json.candidates /= None
           /\ resp.json.candidates[1][1].content[1].parts[1] /= <<>>
           /\ Truthy(resp.json.candidates[1][1].content[1].parts[1][1].text) }

\* two invocations that may differ in their aspect ratio and output format
NextPair ==
    \E i \in Procs :
        \/ \E args \in ToolArgs({None, Some(<<RefJpg>>)}, ModelArgs,
                               {None, Some("16:9")}, {None, Some("webp")}, {None}) :
             CallTool(i, "generate_image", Some(args))
        \/ ReadOk(i)
        \/ \E resp \in PairResponses : ToolPrimaryResponse(i, resp)
        \/ \E resp \in PairResponses : ToolRetryResponse(i, resp)
        \/ ToolFetchRejects(i)

SpecPair == InitMany /\ [][NextPair]_vars

ConcResponses ==
    { resp \in ToolResponses :
        \/ resp.status = 500
        \/ /\ resp.status = 200
           /\ resp.json.candidates /= None
           /\ resp.json.candidates[1][1].content[1].parts[1] /= <<>>
           /\ LET part == resp.json.candidates[1][1].content[1].parts[1][1]
              IN part.inlineData /= None /\ part.inlineData[1].mimeType /= "" /\ part.text = None }

\* two invocations dispatched concurrently, their steps interleaved
NextConc ==
    \E i \in Procs :
        \/ \E args \in ToolArgs({None, Some(<<OutPng>>)}, {Some(FlashModel)},
                               {None}, {None}, {None, Some(OutPng)}) :
             CallTool(i, "generate_image", Some(args))
        \/ ReadOk(i)
        \/ ReadFails(i)
        \/ \E resp \in ConcResponses : ToolPrimaryResponse(i, resp)
        \/ ToolFetchRejects(i)
        \/ WriteOpen(i)
        \/ WriteData(i)
        \/ WriteClose(i)

SpecConc == InitMany /\ [][NextConc]_vars

LiveResponses ==
    { resp \in ToolResponses :
        \/ resp.status = 429
        \/ /\ resp.json.candidates /= None
           /\ resp.json.candidates[1][1].content[1].parts[1] /= <<>>
           /\ LET part == resp.json.candidates[1][1].content[1].parts[1][1]
              IN part.inlineData /= None /\ part.inlineData[1].mimeType = "image/webp" }

\* calls that read a present or a missing file and write to a good or a bad path
LiveCalls ==
    { <<"generate_image", args>> :
        args \in ToolArgs({Some(<<RefJpg>>), Some(<<OutPng>>)}, {None}, {None}, {None},
                          {Some(OutPng), Some(NoDirPng)}) }
    \cup { <<"list_models", args>> :
             args \in ToolArgs({Some(<<RefJpg>>)}, {None}, {None}, {None}, {Some(OutPng)}) }

\* two invocations through every suspending operation of the handler
NextLive ==
    \E i \in Procs :
        \/ \E call \in LiveCalls : CallTool(i, call[1], Some(call[2]))
        \/ ReadOk(i)
        \/ ReadFails(i)
        \/ \E resp \in LiveResponses : ToolPrimaryResponse(i, resp)
        \/ \E resp \in LiveResponses : ToolRetryResponse(i, resp)
        \/ ToolFetchRejects(i)
        \/ WriteOpen(i)
        \/ WriteFails(i)
        \/ WriteData(i)
        \/ WriteClose(i)

\* a completion of the operation the invocation is suspended on
Completion(i) ==
    \/ ReadOk(i)
    \/ ReadFails(i)
    \/ \E resp \in LiveResponses : ToolPrimaryResponse(i, resp)
    \/ \E resp \in LiveResponses : ToolRetryResponse(i, resp)
    \/ ToolFetchRejects(i)
    \/ WriteOpen(i)
    \/ WriteFails(i)
    \/ WriteData(i)
    \/ WriteClose(i)

\* every pending readFile, fetch and writeFile eventually resolves or rejects;
\* an invocation is suspended on one operation at a time
IoCompletes == \A i \in Procs : WF_vars(Completion(i))

SpecLive == InitMany /\ [][NextLive]_vars /\ IoCompletes

----------------------------------------------------------------------------
(* getMimeType and loadImageFromPath called on every path                  *)

\* contents of the file that loadImageFromPath reads
SampleBuffers == {<<137, 80>>, <<255, 216, 255>>}

\* lines 37-47
CallGetMimeType ==
    /\ mimeOut = None
    /\ mimeOut' = Some([call |-> "getMimeType", failed |-> FALSE,
                        mimeType |-> getMimeType(mimePath), data |-> <<>>,
                        buffer |-> <<>>])
    /\ UNCHANGED <<env, gvars, inv, fs, mimePath>>

\* lines 49-54, readFile resolving with buffer
CallLoadImage(buffer) ==
    /\ mimeOut = None
    /\ LET image == loadImageFromPath(mimePath, buffer)
       IN mimeOut' = Some([call |-> "loadImageFromPath", failed |-> FALSE,
                           mimeType |-> image.mimeType[1], data |-> image.data,
                           buffer |-> buffer])
    /\ UNCHANGED <<env, gvars, inv, fs, mimePath>>

\* line 50, readFile rejecting
CallLoadImageFails ==
    /\ mimeOut = None
    /\ mimeOut' = Some([call |-> "loadImageFromPath", failed |-> TRUE,
                        mimeType |-> "", data |-> <<>>, buffer |-> <<>>])
    /\ UNCHANGED <<env, gvars, inv, fs, mimePath>>

InitMime ==
    /\ env = None
    /\ InitGenerate
    /\ InitHandler
    /\ mimePath \in SeqUpTo(PathTokens, MaxPathLen)
    /\ mimeOut = None

NextMime ==
    \/ CallGetMimeType
    \/ \E buffer \in SampleBuffers : CallLoadImage(buffer)
    \/ CallLoadImageFails

SpecMime == InitMime /\ [][NextMime]_vars

----------------------------------------------------------------------------
(* Vocabulary of the properties *)

Ended == pc \in {"returned", "thrown"}

LastReceived == received[Len(received)]

\* the model a request is addressed to: the path segment before :generateContent
TargetOf(req) == req.url[3]

FallbackStatus(st) == st = 429 \/ st = 403 \/ st = 402

\* the first response is a non-success one with status 429, 403 or 402
PrimaryRateLimited ==
    /\ Len(received) >= 1
    /\ ~(received[1].status \in 200..299)
    /\ FallbackStatus(received[1].status)

Embeds(msg, tok) == \E i \in DOMAIN msg : msg[i] = tok

----------------------------------------------------------------------------
(* C1: once the first response has arrived, a second request has been      *)
(* issued if and only if the model asked for (the default pro model when   *)
(* omitted) is gemini-3-pro-image-preview and the first response is a      *)
(* non-success one with status 429, 403 or 402; a second request targets   *)
(* gemini-2.5-flash-image; before the first response there is at most the  *)
(* primary request.                                                        *)
C1_SecondRequestIff ==
    /\ Len(received) = 0 => Len(requests) <= 1
    /\ Len(received) >= 1 =>
         (Len(requests) = 2 <=>
            (model = "gemini-3-pro-image-preview" /\ PrimaryRateLimited))
    /\ Len(requests) >= 2 => TargetOf(requests[2]) = "gemini-2.5-flash-image"
    /\ Len(requests) >= 1 => TargetOf(requests[1]) = model

C1_Witness ==
    /\ modelArg = None
    /\ Len(requests) = 2
    /\ received[1].status = 402

(* C2: on every successful return modelUsed is the model the last request  *)
(* was addressed to, and fallback is true exactly when pro was requested,  *)
(* its response had status 429, 403 or 402 and a retry against flash was   *)
(* issued; so fallback implies modelUsed = flash and no fallback implies   *)
(* modelUsed = the caller's model.                                         *)
C2_ModelUsedAndFallback ==
    pc = "returned" =>
      /\ result /= None
      /\ result[1].modelUsed = TargetOf(requests[Len(requests)])
      /\ result[1].fallback <=>
           /\ model = "gemini-3-pro-image-preview"
           /\ PrimaryRateLimited
           /\ Len(requests) = 2
           /\ TargetOf(requests[2]) = "gemini-2.5-flash-image"
      /\ result[1].fallback => result[1].modelUsed = "gemini-2.5-flash-image"
      /\ ~result[1].fallback => result[1].modelUsed = model

C2_Witness ==
    /\ pc = "returned"
    /\ result[1].fallback
    /\ result[1].modelUsed = "gemini-2.5-flash-image"
    /\ received[1].status = 429

(* C3: an invocation issues at most two requests, at most one when the     *)
(* caller asked for gemini-2.5-flash-image, and the response to the retry  *)
(* ends the invocation without a further request whatever its status.      *)
C3_AtMostTwoRequests ==
    /\ Len(requests) <= 2
    /\ model = "gemini-2.5-flash-image" => Len(requests) <= 1
    /\ Len(received) = 2 => Ended /\ Len(requests) = 2

C3_Witness ==
    /\ Len(received) = 2
    /\ FallbackStatus(received[2].status)
    /\ pc = "thrown"
    /\ Len(requests) = 2

\* the body carries content the scan can read: a first candidate with a
\* non-empty parts list
HasFirstParts(data) ==
    /\ data.candidates /= None
    /\ Len(data.candidates[1]) >= 1
    /\ data.candidates[1][1].content /= None
    /\ data.candidates[1][1].content[1].parts /= None
    /\ Len(data.candidates[1][1].content[1].parts[1]) >= 1

C5_HttpErrorEmbedsLastResponse ==
    ( /\ Len(received) >= 1
      /\ ~(LastReceived.status \in 200..299)
      /\ \/ Len(received) = 2
         \/ ~(model = "gemini-3-pro-image-preview" /\ FallbackStatus(received[1].status)) )
    => /\ pc = "thrown"
       /\ result = None
       /\ error /= None
       /\ error[1][1] = "Gemini API error: "
       /\ Embeds(error[1], ToString(LastReceived.status))
       /\ Embeds(error[1], LastReceived.text)

C5_Witness ==
    /\ Len(received) = 2
    /\ received[2].status = 429
    /\ received[1].status = 403
    /\ pc = "thrown"
    /\ Embeds(error[1], "429")
    /\ Embeds(error[1], received[2].text)

\* an API key is configured in the environment
KeyConfigured == env /= None /\ env[1] /= ""

(* C6: in any sequence of invocations, a call of generateImage fails with  *)
(* the missing-credential error, with no request issued, if and only if no *)
(* API key is configured in the environment at that call; the error arises *)
(* at no other step, and every request of an invocation carries the key    *)
(* that was configured when the invocation was called.                     *)
C6_MissingKeyIffUnsetAtCall ==
    [][ /\ (Len(keySeen') = Len(keySeen) + 1) =>
             /\ (pc' = "thrown" /\ error' = Some(MissingKeyError)) <=> ~KeyConfigured
             /\ ~KeyConfigured => requests' = <<>>
             /\ KeyConfigured =>
                  /\ Len(requests') = 1
                  /\ requests'[1].headers.xGoogApiKey = env[1]
        /\ (Len(keySeen') = Len(keySeen)) =>
             /\ error' = Some(MissingKeyError) => error = Some(MissingKeyError)
             /\ \A i \in DOMAIN requests' :
                  requests'[i].headers.xGoogApiKey = requests'[1].headers.xGoogApiKey
      ]_vars

C6_Witness ==
    /\ keySeen = <<TRUE, FALSE>>
    /\ pc = "thrown"
    /\ error = Some(MissingKeyError)
    /\ requests = <<>>

(* C7: every request of an invocation, primary and retry alike, carries    *)
(* the same part list of length Len(images) + 1: part 0 is the prompt text *)
(* verbatim and parts 1..n are the images in input order, each with its    *)
(* own data and mime type (image/png when the record has none); the retry  *)
(* differs from the primary request only in the model named in the URL.    *)
C7_RequestParts ==
    /\ \A k \in DOMAIN requests :
         LET ps == requests[k].body.contents[1].parts IN
           /\ Len(requests[k].body.contents) = 1
           /\ Len(ps) = Len(images) + 1
           /\ ps[1] = [text |-> prompt]
           /\ \A i \in 1..Len(images) :
                /\ ps[i + 1].inlineData.data = images[i].data
                /\ ps[i + 1].inlineData.mimeType =
                     IF images[i].mimeType = None THEN "image/png"
                     ELSE images[i].mimeType[1]
    /\ Len(requests) = 2 =>
         /\ requests[2].body = requests[1].body
         /\ requests[2].headers = requests[1].headers
         /\ requests[2].method = requests[1].method
         /\ \A j \in {1, 2, 4} : requests[2].url[j] = requests[1].url[j]
         /\ requests[2].url[3] /= requests[1].url[3]

C7_Witness ==
    /\ Len(requests) = 2
    /\ prompt = ""
    /\ Len(images) = 2
    /\ images[1].mimeType = None
    /\ images[2].mimeType = Some("image/jpeg")
    /\ requests[2].body.contents[1].parts[3].inlineData.mimeType = "image/jpeg"

(* C8: whenever the final response, primary or retry, has a success status *)
(* and its JSON body contains an error object, the invocation fails with   *)
(* an error embedding that object's message and returns no result, also    *)
(* when the body contains candidates.                                      *)
C8_PayloadError ==
    ( /\ Len(received) >= 1
      /\ LastReceived.status \in 200..299
      /\ LastReceived.json.error /= None )
    => /\ pc = "thrown"
       /\ result = None
       /\ error /= None
       /\ Embeds(error[1], LastReceived.json.error[1].message)

C8_Witness ==
    /\ Len(received) = 2
    /\ pc = "thrown"
    /\ LastReceived.status = 200
    /\ LastReceived.json.error /= None
    /\ HasFirstParts(LastReceived.json)
    /\ pc = "thrown"

(* C9: generateImage never returns a result in which both text and         *)
(* imageData are absent.                                                   *)
C9_ResultCarriesContent ==
    pc = "returned" => (result[1].text /= None \/ result[1].imageData /= None)

(* C10: for every success-status response without an error object, the     *)
(* invocation fails with 'No content generated' if and only if the first   *)
(* candidate, its content or its parts list is absent or the parts list is *)
(* empty; what a result carries comes from the first candidate's parts,    *)
(* never from a later candidate.                                           *)
C10_NoContentIff ==
    ( /\ Len(received) >= 1
      /\ LastReceived.status \in 200..299
      /\ LastReceived.json.error = None )
    => /\ Ended
       /\ (pc = "thrown" /\ error = Some(<<"No content generated">>))
            <=> ~HasFirstParts(LastReceived.json)
       /\ pc = "returned" <=> HasFirstParts(LastReceived.json)
       /\ pc = "returned" =>
            LET fp == LastReceived.json.candidates[1][1].content[1].parts[1] IN
              /\ result[1].text /= None =>
                   \E i \in DOMAIN fp : fp[i].text = result[1].text
              /\ result[1].imageData /= None =>
                   \E i \in DOMAIN fp :
                      /\ fp[i].inlineData /= None
                      /\ fp[i].inlineData[1].data = result[1].imageData[1]

C10_Witness ==
    /\ pc = "thrown"
    /\ error = Some(<<"No content generated">>)
    /\ Len(received) >= 1
    /\ LastReceived.status = 200
    /\ LastReceived.json.candidates /= None
    /\ Len(LastReceived.json.candidates[1]) = 2
    /\ LastReceived.json.candidates[1][1].content = None
    /\ LastReceived.json.candidates[1][2].content /= None


\* the greatest element of a non-empty set of positions
Last(S) == CHOOSE i \in S : \A j \in S : j <= i

(* C11: for every non-empty response parts list the result is the         *)
(* last-occurrence-wins fold over the parts: text is the text of the last  *)
(* part bearing (non-empty) text, absent when there is none; imageData and *)
(* mimeType are the data and mime type of the last part bearing inline     *)
(* data, both from that one part, absent when there is none; each is       *)
(* settled without regard to the other.                                    *)
C11_LastPartWins ==
    ( /\ pc = "returned"
      /\ Len(received) >= 1
      /\ HasFirstParts(LastReceived.json) )
    => LET fp == LastReceived.json.candidates[1][1].content[1].parts[1]
           texts == {i \in DOMAIN fp : fp[i].text /= None /\ fp[i].text[1] /= ""}
           datas == {i \in DOMAIN fp : fp[i].inlineData /= None}
       IN /\ result[1].text = IF texts = {} THEN <<>> ELSE fp[Last(texts)].text
          /\ result[1].imageData =
               IF datas = {} THEN <<>> ELSE <<fp[Last(datas)].inlineData[1].data>>
          /\ result[1].mimeType =
               IF datas = {} THEN <<>> ELSE <<fp[Last(datas)].inlineData[1].mimeType>>

C11_Witness ==
    /\ pc = "returned"
    /\ Len(received) >= 1
    /\ HasFirstParts(LastReceived.json)
    /\ LET fp == LastReceived.json.candidates[1][1].content[1].parts[1]
       IN /\ Len(fp) = 2
          /\ fp[1].text = <<"Generated image description">>
          /\ fp[1].inlineData /= <<>>
          /\ fp[2].text = <<"Success with Flash">>
          /\ fp[2].inlineData = <<>>
    /\ result[1].text = <<"Success with Flash">>
    /\ result[1].imageData = <<"webpdata">>
    /\ result[1].mimeType = <<"image/webp">>


\* the path, trailing slashes dropped, ends in a dot and one of the names,
\* and the dot does not begin the file name
EndsInExtension(path, names) ==
    \E n \in 3..Len(path) :
      /\ \A k \in (n + 1)..Len(path) : path[k] = "/"
      /\ path[n] \in names
      /\ path[n - 1] = "."
      /\ path[n - 2] /= "/"

\* the extension table, in any letter case
TableMime(path) ==
    IF EndsInExtension(path, {"png", "PNG"}) THEN "image/png"
    ELSE IF EndsInExtension(path, {"Jpg", "jpeg"}) THEN "image/jpeg"
    ELSE IF EndsInExtension(path, {"WEBP"}) THEN "image/webp"
    ELSE IF EndsInExtension(path, {"gif"}) THEN "image/gif"
    ELSE "image/png"

(* C19: for every path getMimeType returns the table value of the         *)
(* lower-cased extension (png, jpg, jpeg, webp, gif in any letter case)    *)
(* and image/png for every other or missing extension, without failing;    *)
(* loadImageFromPath tags the image it loads with this same value.         *)
C19_MimeResolver ==
    mimeOut /= None =>
      /\ mimeOut[1].call = "getMimeType" => ~mimeOut[1].failed
      /\ ~mimeOut[1].failed => mimeOut[1].mimeType = TableMime(mimePath)

C19_Witness ==
    /\ mimeOut /= None
    /\ mimeOut[1].call = "loadImageFromPath"
    /\ ~mimeOut[1].failed
    /\ mimePath = <<"/", "image", ".", "Jpg">>
    /\ mimeOut[1].mimeType = "image/jpeg"

----------------------------------------------------------------------------
(* Vocabulary of the claims about the tool-call handler.                    *)

Done(i) == inv[i].hpc = "done"

IsGenerate(r) == r.name = "generate_image" /\ r.args /= None

PathsOf(r) == IF TruthySeq(r.args[1].imagePaths) THEN r.args[1].imagePaths[1] ELSE <<>>

IsErrorBlock(b) == b.type = "text" /\ Len(b.text) >= 1 /\ b.text[1] = "Error: "

IsSavedBlock(b) == b.type = "text" /\ Len(b.text) >= 1 /\ b.text[1] = "Image saved to: "

IsImageBlock(b) == b.type = "image"

FallbackNote == " (fallback from gemini-3-pro-image-preview due to quota/rate limit)"

\* the failures an ended invocation can have met, told from its logs
ReadFailed(r) == Len(r.reads) > Len(r.images)

KeyMissing(r) ==
    IsGenerate(r) /\ ~ReadFailed(r) /\ Len(r.reads) = Len(PathsOf(r)) /\ ~Truthy(r.apiKey)

FetchRejected(r) == Len(r.requests) > Len(r.received)

GenerateThrew(r) ==
    /\ r.received /= <<>>
    /\ Len(r.requests) = Len(r.received)
    /\ Outcome(r.received[Len(r.received)], r.usedModel, r.didFallback).error /= None

WriteFailed(r) == r.writes /= <<>> /\ ~Writable(WritePath(r))

Failed(r) ==
    \/ r.name /= "generate_image"
    \/ r.args = None
    \/ ReadFailed(r)
    \/ KeyMissing(r)
    \/ FetchRejected(r)
    \/ GenerateThrew(r)
    \/ WriteFailed(r)

Succeeded(i) ==
    Done(i) /\ inv[i].response /= None /\ ~inv[i].response[1].isError

----------------------------------------------------------------------------
(* C12: the tool-call handler never throws. Every ended invocation has a   *)
(* response; the response carries the error flag exactly when a failure    *)
(* was raised in the invocation (unknown tool, missing arguments,          *)
(* unreadable reference image, missing credential, transport error,        *)
(* payload or status error, empty content, file-write error), and then its *)
(* content is exactly one text block prefixed 'Error: ', with no block of  *)
(* the partially built content.                                            *)
C12_NeverThrows ==
    \A i \in Procs :
        Done(i) =>
            /\ inv[i].response /= None
            /\ inv[i].response[1].isError <=> Failed(inv[i])
            /\ inv[i].response[1].isError =>
                  /\ Len(inv[i].response[1].content) = 1
                  /\ IsErrorBlock(inv[i].response[1].content[1])

\* the file write fails after the status block was built
C12_Witness ==
    /\ Done("A")
    /\ WriteFailed(inv["A"])
    /\ inv["A"].content /= <<>>
    /\ inv["A"].response = Some(ErrorResponse(WriteError(NoDirPng)))

----------------------------------------------------------------------------
(* C14: the first content block of every successful generate_image         *)
(* response is a text block that starts 'Model used: <modelUsed>'; it      *)
(* holds the fallback note naming gemini-3-pro-image-preview if and only   *)
(* if the result's fallback flag is true; the result text, when present,   *)
(* ends this same block after a blank line, and no later block is a text   *)
(* block other than the 'Image saved to:' confirmation.                    *)
C14_StatusBlock ==
    \A i \in Procs :
        Succeeded(i) =>
            LET res == inv[i].result[1]
                content == inv[i].response[1].content
                status == content[1].text
            IN /\ Len(content) >= 1
               /\ content[1].type = "text"
               /\ Len(status) >= 2
               /\ status[1] = "Model used: "
               /\ status[2] = res.modelUsed
               /\ Embeds(status, FallbackNote) <=> res.fallback
               /\ Truthy(res.text) =>
                     /\ Len(status) >= 4
                     /\ status[Len(status) - 1] = "\n\n"
                     /\ status[Len(status)] = res.text[1]
               /\ ~Truthy(res.text) => ~Embeds(status, "\n\n")
               /\ \A k \in 2..Len(content) :
                     content[k].type = "text" => IsSavedBlock(content[k])

\* a fallback answered with text and an image
C14_Witness ==
    /\ Succeeded("A")
    /\ inv["A"].response[1].content[1] =
          [type |-> "text",
           text |-> <<"Model used: ", FlashModel, FallbackNote, "\n\n",
                      "Generated image description">>]
    /\ Len(inv["A"].response[1].content) = 2


----------------------------------------------------------------------------
(* C15: in a generate_image invocation the reference images are read one   *)
(* at a time in the order of imagePaths and every read has completed       *)
(* before generateImage sends anything; at the first unreadable path the   *)
(* invocation ends: no later path is read, no request is issued, no file   *)
(* is written and the response is the error-flagged block. When all reads  *)
(* succeed the images handed to generateImage, and the inline parts of its *)
(* requests, are in the order of imagePaths.                               *)
C15_SequentialReads ==
    \A i \in Procs :
        IsGenerate(inv[i]) =>
            LET r == inv[i]
                paths == PathsOf(r)
            IN /\ Len(r.reads) <= Len(paths)
               /\ \A k \in 1..Len(r.reads) : r.reads[k] = paths[k]
               /\ Len(r.images) <= Len(r.reads)
               /\ Len(r.reads) <= Len(r.images) + 1
               /\ \A k \in 1..Len(r.images) :
                     /\ r.fs0[paths[k]] /= None
                     /\ r.images[k] = loadImageFromPath(paths[k], r.fs0[paths[k]][1])
               /\ ReadFailed(r) =>
                     /\ r.fs0[r.reads[Len(r.reads)]] = None
                     /\ Done(i)
                     /\ r.requests = <<>>
                     /\ r.writes = <<>>
                     /\ fs = r.fs0
                     /\ r.response =
                          Some(ErrorResponse(ReadError(r.reads[Len(r.reads)])))
               /\ r.requests /= <<>> =>
                     /\ Len(r.images) = Len(paths)
                     /\ \A q \in 1..Len(r.requests) :
                           LET ps == r.requests[q].body.contents[1].parts
                           IN /\ Len(ps) = Len(paths) + 1
                              /\ \A k \in 1..Len(paths) :
                                    ps[k + 1].inlineData =
                                      [mimeType |-> getMimeType(paths[k]),
                                       data |-> toBase64(r.fs0[paths[k]][1])]

\* the first of two paths is unreadable: the second is never read
C15_Witness ==
    /\ Done("A")
    /\ IsGenerate(inv["A"])
    /\ PathsOf(inv["A"]) = <<OutPng, RefJpg>>
    /\ inv["A"].reads = <<OutPng>>
    /\ inv["A"].requests = <<>>
    /\ inv["A"].response[1].isError


----------------------------------------------------------------------------
(* C13: for every successful generate_image invocation whose generation    *)
(* result carries image data: with an outputPath the decoded bytes are     *)
(* written to that path, the last block is the text 'Image saved to:       *)
(* <path>' and there is no inline image block; without one there is an     *)
(* inline image block with the base64 data and its mime type and no file   *)
(* is written. The image data is never left out of both.                   *)
CarriesImageData(r) == r.result /= None /\ TruthySeq(r.result[1].imageData)

C13_ImageSavedOrInline ==
    \A i \in Procs :
        (Succeeded(i) /\ IsGenerate(inv[i]) /\ CarriesImageData(inv[i])) =>
            LET r == inv[i]
                res == r.result[1]
                content == r.response[1].content
            IN IF TruthySeq(r.args[1].outputPath)
               THEN /\ r.writes = <<[path |-> r.args[1].outputPath[1],
                                     data |-> fromBase64(res.imageData[1])]>>
                    /\ fs[r.args[1].outputPath[1]] = Some(fromBase64(res.imageData[1]))
                    /\ content[Len(content)] =
                          [type |-> "text",
                           text |-> <<"Image saved to: ">> \o r.args[1].outputPath[1]]
                    /\ \A k \in 1..Len(content) : ~IsImageBlock(content[k])
               ELSE /\ r.writes = <<>>
                    /\ \E k \in 1..Len(content) :
                          /\ IsImageBlock(content[k])
                          /\ content[k].data = res.imageData[1]
                          /\ Some(content[k].mimeType) = res.mimeType
                    /\ \A k \in 1..Len(content) : ~IsSavedBlock(content[k])

----------------------------------------------------------------------------
(* C20: a generate_image invocation performs at most one file write, to    *)
(* the supplied outputPath, with the decoded bytes of the image data of    *)
(* the result generateImage returned; an invocation without outputPath, or *)
(* one that ends in an error from image loading, the missing credential,   *)
(* the transport, the payload or empty content, has written no file, and   *)
(* no file other than the one written has changed.                         *)
C20_AtMostOneWrite ==
    /\ \A p \in FilePaths :
          fs[p] /= InitFs[p] =>
             \E i \in Procs : inv[i].writes /= <<>> /\ p = inv[i].writes[1].path
    /\ \A i \in Procs :
        LET r == inv[i]
        IN /\ Len(r.writes) <= 1
           /\ r.writes /= <<>> =>
                 /\ IsGenerate(r)
                 /\ TruthySeq(r.args[1].outputPath)
                 /\ r.writes[1].path = r.args[1].outputPath[1]
                 /\ CarriesImageData(r)
                 /\ r.writes[1].data = fromBase64(r.result[1].imageData[1])
                 /\ ~(ReadFailed(r) \/ KeyMissing(r) \/ FetchRejected(r) \/ GenerateThrew(r))

\* the invocation has written the three decoded bytes to its outputPath
C20_Witness ==
    /\ Succeeded("A")
    /\ inv["A"].writes = <<[path |-> OutPng, data |-> <<255, 216, 255>>]>>
    /\ fs[OutPng] = Some(<<255, 216, 255>>)
    /\ fs[RefJpg] = InitFs[RefJpg]


----------------------------------------------------------------------------
(* C17: a generation request carries at most 14 reference images: every    *)
(* request a generate_image invocation sends has at most 14 inline-data    *)
(* parts and at most 15 parts in all, whatever the length of imagePaths.   *)
InlineParts(req) ==
    { k \in 1..Len(req.body.contents[1].parts) :
        "inlineData" \in DOMAIN req.body.contents[1].parts[k] }

C17_AtMost14Images ==
    \A i \in Procs :
        \A q \in 1..Len(inv[i].requests) :
            /\ Cardinality(InlineParts(inv[i].requests[q])) <= MaxReferenceImages
            /\ Len(inv[i].requests[q].body.contents[1].parts) <= MaxReferenceImages + 1


----------------------------------------------------------------------------
(* C18: the requests and the result of generateImage do not depend on      *)
(* aspectRatio or outputFormat: two invocations whose arguments differ at  *)
(* most in those two and that have received the same responses have sent   *)
(* identical requests (URL, headers, body) and hold identical results, and *)
(* the generationConfig of every request is exactly the fixed              *)
(* responseModalities [TEXT, IMAGE].                                       *)
SameButRatioAndFormat(a, b) ==
    /\ a.prompt = b.prompt
    /\ a.imagePaths = b.imagePaths
    /\ a.model = b.model
    /\ a.outputPath = b.outputPath

----------------------------------------------------------------------------
(* C16: concurrently dispatched generate_image invocations do not          *)
(* interfere: whatever the interleaving of their file reads, HTTP calls    *)
(* and file writes, when an invocation ends its response is the response   *)
(* it would produce running alone with the same arguments and the same     *)
(* remote responses, and if that response reports 'Image saved to: P' the  *)
(* file P then holds that invocation's decoded image bytes, also when      *)
(* several invocations name the same outputPath.                           *)
Unreadable(paths, files) == { k \in 1..Len(paths) : files[paths[k]] = None }

\* the invocation r run alone from the files present at its dispatch
SoloRun(r) ==
    LET paths == PathsOf(r)
        loaded == [k \in 1..Len(paths) |->
                     loadImageFromPath(paths[k], r.fs0[paths[k]][1])]
        r0 == [IdleInvocation EXCEPT !.name = r.name, !.args = r.args, !.fs0 = r.fs0,
                                     !.images = loaded, !.reads = paths]
        r1 == StartGenerate(r0, r.apiKey)
        r2 == IF r1.hpc /= "fetchPrimary" THEN r1
              ELSE IF Len(r.received) < 1
              THEN Respond(r1, ErrorResponse(FetchFailedError))
              ELSE AfterPrimary(r1, r.received[1])
        r3 == IF r2.hpc /= "fetchRetry" THEN r2
              ELSE IF Len(r.received) < 2
              THEN Respond(r2, ErrorResponse(FetchFailedError))
              ELSE AfterRetry(r2, r.received[2])
        r4 == IF r3.hpc /= "writeOpen" THEN r3
              ELSE IF ~Writable(WritePath(r3))
              THEN Respond(r3, ErrorResponse(WriteError(WritePath(r3))))
              ELSE Respond(r3, ContentResponse(Append(r3.content,
                     [type |-> "text",
                      text |-> <<"Image saved to: ">> \o WritePath(r3)])))
    IN IF Unreadable(paths, r.fs0) /= {}
       THEN ErrorResponse(ReadError(
              paths[CHOOSE k \in Unreadable(paths, r.fs0) :
                       \A l \in Unreadable(paths, r.fs0) : k <= l]))
       ELSE r4.response[1]

ReportsSaved(r) ==
    /\ r.response /= None
    /\ \E k \in 1..Len(r.response[1].content) : IsSavedBlock(r.response[1].content[k])

C16_NoInterference ==
    [][\A i \in Procs :
          (inv[i].hpc /= "done" /\ inv'[i].hpc = "done" /\ IsGenerate(inv'[i])) =>
              /\ inv'[i].response[1] = SoloRun(inv'[i])
              /\ ReportsSaved(inv'[i]) =>
                    fs'[WritePath(inv'[i])] = Some(inv'[i].writes[1].data)]_vars


----------------------------------------------------------------------------
(* C22: a tool call whose name is not generate_image ends at once with the *)
(* error-flagged response 'Error: Unknown tool: <name>' and performs no    *)
(* file read, no network request and no file write, whatever its           *)
(* arguments.                                                              *)
C22_UnknownTool ==
    \A i \in Procs :
        (inv[i].hpc /= "idle" /\ inv[i].name /= "generate_image") =>
            /\ Done(i)
            /\ inv[i].response =
                  Some([content |-> <<[type |-> "text",
                                       text |-> <<"Error: ", "Unknown tool: ",
                                                  inv[i].name>>]>>,
                        isError |-> TRUE])
            /\ inv[i].reads = <<>>
            /\ inv[i].requests = <<>>
            /\ inv[i].writes = <<>>
            /\ fs = inv[i].fs0

\* an unknown tool called with reference images and an output path
C22_Witness ==
    /\ Done("A")
    /\ inv["A"].name = "list_models"
    /\ inv["A"].args /= None
    /\ TruthySeq(inv["A"].args[1].imagePaths)
    /\ TruthySeq(inv["A"].args[1].outputPath)
    /\ inv["A"].response[1].isError
    /\ inv["A"].reads = <<>>


----------------------------------------------------------------------------
(* C21: if every file read, HTTP call and file write eventually completes  *)
(* or fails, every tool invocation eventually returns, and it returns      *)
(* exactly one response, a content sequence or the error-flagged block,    *)
(* after at most len(imagePaths) file reads, two HTTP calls and one file   *)
(* write; a started invocation always has a step of its own to take,       *)
(* whatever the other invocations do, and it never goes back.              *)
Started(i) == inv[i].hpc /= "idle"

WithinResources(i) ==
    /\ Len(inv[i].reads) <= (IF IsGenerate(inv[i]) THEN Len(PathsOf(inv[i])) ELSE 0)
    /\ Len(inv[i].requests) <= 2
    /\ Len(inv[i].writes) <= 1
    /\ Done(i) <=> inv[i].response /= None
    /\ Done(i) =>
          IF inv[i].response[1].isError
          THEN /\ Len(inv[i].response[1].content) = 1
               /\ IsErrorBlock(inv[i].response[1].content[1])
          ELSE /\ Len(inv[i].response[1].content) >= 1
               /\ \A k \in 1..Len(inv[i].response[1].content) :
                     ~IsErrorBlock(inv[i].response[1].content[k])
    /\ (Started(i) /\ ~Done(i)) => ENABLED Completion(i)

C21_Terminates ==
    /\ [](\A i \in Procs : WithinResources(i))
    /\ [][\A i \in Procs : Done(i) => inv'[i] = inv[i]]_vars
    /\ \A i \in Procs : Started(i) ~> Done(i)

\* one invocation has returned after a read, two HTTP calls and a write
\* while the other is still in the middle of its own write
C21_Witness ==
    /\ Succeeded("A")
    /\ Len(inv["A"].reads) = 1
    /\ Len(inv["A"].requests) = 2
    /\ Len(inv["A"].writes) = 1
    /\ inv["B"].hpc = "writeData"

============================================================================
